---- MODULE Spec2Model ----
(***************************************************************************)
(* A model of scripts/visualize_growth.py (panacus): the header validator, *)
(* the table loader, the tick formatter (humanize_number and               *)
(* calibrate_yticks_text) and the renderer (plot), as one run of the       *)
(* script from argument parsing to process exit.                           *)
(*                                                                         *)
(* Numbers.  A number i handed to humanize_number is the record            *)
(* [m |-> M, e |-> E] that stands for M * 1000^E (M an integer, E an       *)
(* integer), so that values of 10^15 and above and values below 1 are      *)
(* both within reach of 32-bit arithmetic.  Arithmetic is exact; the one   *)
(* place where the binary double decides the outcome (a decimal tie whose  *)
(* quotient is not a dyadic number) is covered by the variable tieUp,      *)
(* which takes both values.                                                *)
(*                                                                         *)
(* Text.  A string is a sequence of characters.  In a header line the      *)
(* words "panacus", the command names and the argument words are single    *)
(* symbols that behave as non-space characters.                            *)
(***************************************************************************)
EXTENDS Integers, Sequences, FiniteSets, TLC

VARIABLES
    \* the inputs of a run: the command line and the file
    fileExists,     \* the path given on the command line can be opened
    fileHeader,     \* first line of the file (<<>>: the file is empty)
    fileCols,       \* the two header rows of the table: a sequence of <<cell, cell>>
    estimate,       \* args.estimate_growth_params
    tieUp,          \* direction in which the double nearest a non-dyadic tie lies
    \* the run
    pc,             \* position in __main__ / plot
    handleArgs,     \* args.growth_stats (argparse type=open): "none", "open", "closed"
    handleGrowth,   \* growth (with open(...)): "none", "open", "closed"
    opens,          \* number of open() calls on the input file
    header, command, arg_list, counttype,
    columns,        \* df.columns
    colIdx,         \* i of the loop in plot (columns already handled)
    series,         \* what plot has drawn, in drawing order
    fitCalls,       \* columns (by index) that compute_growth was called for
    steps,          \* steps of the run completed successfully, in order
    written,        \* number of writes to standard output (savefig)
    errMsg,         \* what was printed to standard error by the script itself
    failure,        \* uncaught exception that ended the run ("" if none)
    exitStatus,     \* process exit status (-1 while running)
    \* calibrate_yticks_text
    yticks, prec, yticks_text, calPc,
    \* one call of humanize_number
    hIn, hPrec, hOut, hPc

vars == <<fileExists, fileHeader, fileCols, estimate, tieUp, pc, handleArgs,
          handleGrowth, opens, header, command, arg_list, counttype, columns,
          colIdx, series, fitCalls, steps, written, errMsg, failure,
          exitStatus, yticks, prec, yticks_text, calPc, hIn, hPrec, hOut, hPc>>

runVars == <<pc, handleArgs, handleGrowth, opens, header, command, arg_list,
             counttype, columns, colIdx, series, fitCalls, steps, written,
             errMsg, failure, exitStatus>>
inputVars == <<fileExists, fileHeader, fileCols, estimate, tieUp>>
calVars == <<yticks, prec, yticks_text, calPc>>
humVars == <<hIn, hPrec, hOut, hPc>>

---------------------------------------------------------------------------
\* Bounds of the model

\* longest argument token list of a generated header
MaxArgs == 2
\* most columns of a generated table
MaxCols == 3
\* most ticks handed to calibrate_yticks_text on its own
MaxTicks == 3
\* precision at which the loop of calibrate_yticks_text is cut off
MaxPrec == 4
\* largest plain integer handed to humanize_number on its own
MaxInt == 2600

---------------------------------------------------------------------------
\* Generic helpers

RECURSIVE Pow(_, _)
Pow(b, n) == IF n = 0 THEN 1 ELSE b * Pow(b, n - 1)

SetMax(S) == CHOOSE x \in S : \A y \in S : y <= x

RECURSIVE SeqsUpTo(_, _)
SeqsUpTo(S, n) ==
    IF n = 0 THEN {<<>>}
    ELSE LET shorter == SeqsUpTo(S, n - 1)
         IN shorter \cup {Append(s, x) : s \in {t \in shorter : Len(t) = n - 1}, x \in S}

Injective(s) == \A a, b \in 1..Len(s) : a # b => s[a] # s[b]

Num(mant, exp) == [m |-> mant, e |-> exp]

---------------------------------------------------------------------------
\* humanize_number

human_r == <<"", "K", "M", "B", "D">>

RECURSIVE Digits(_)
\* number of decimal digits of n >= 1
Digits(n) == IF n < 10 THEN 1 ELSE 1 + Digits(n \div 10)

RECURSIVE IsPow10(_)
IsPow10(n) == IF n = 1 THEN TRUE ELSE IF n % 10 # 0 THEN FALSE ELSE IsPow10(n \div 10)

\* int(np.log10(i)) for i > 0: log10 truncated toward zero
Log10Int(i) ==
    LET t == (Digits(i.m) - 1) + 3 * i.e
    IN IF t >= 0 \/ IsPow10(i.m) THEN t ELSE t + 1

\* order = int(np.log10(i))//3 (floor division), 0 for i = 0
Order(i) == IF i.m > 0 THEN Log10Int(i) \div 3 ELSE 0

\* human_r[order] with Python's indexing: -5..4 are valid, "IndexError" otherwise
SuffixAt(order) ==
    IF order \in 0..4 THEN human_r[order + 1]
    ELSE IF order \in (-5)..(-1) THEN human_r[order + 6]
    ELSE "IndexError"

DigitChar(d) == <<"0", "1", "2", "3", "4", "5", "6", "7", "8", "9">>[d + 1]

RECURSIVE IntText(_)
IntText(n) == IF n < 10 THEN <<DigitChar(n)>> ELSE Append(IntText(n \div 10), DigitChar(n % 10))

RECURSIVE Grouped(_)
\* '{:,}': the integer part with a comma between groups of three digits
Grouped(n) ==
    IF n < 1000 THEN IntText(n)
    ELSE LET r == n % 1000
         IN Grouped(n \div 1000) \o
            <<",", DigitChar(r \div 100), DigitChar((r \div 10) % 10), DigitChar(r % 10)>>

RECURSIVE FracText(_, _)
\* the p digits after the decimal point, zero padded
FracText(f, p) == IF p = 0 THEN <<>> ELSE Append(FracText(f \div 10, p - 1), DigitChar(f % 10))

\* x = num/den rounded to p decimals, as the integer x * 10^p.  A tie of a
\* dyadic x (exactly a double) goes to the even neighbour; a tie of any other
\* x goes where the double nearest to x lies.
RoundScaled(num, den, p) ==
    LET a == num * Pow(10, p)
        q == a \div den
        r == a % den
        dyadic == num % Pow(5, Digits(den) - 1) = 0
    IN IF 2 * r < den THEN q
       ELSE IF 2 * r > den THEN q + 1
       ELSE IF dyadic THEN (IF q % 2 = 0 THEN q ELSE q + 1)
       ELSE IF tieUp THEN q + 1 ELSE q

\* '{:,.{prec}f}{:}'.format(x, suffix, prec=precision) with x = num/den
FormatFixed(num, den, precision, suffix) ==
    LET n == RoundScaled(num, den, precision)
        whole == Grouped(n \div Pow(10, precision))
        frac == IF precision = 0 THEN <<>>
                ELSE <<".">> \o FracText(n % Pow(10, precision), precision)
    IN whole \o frac \o (IF suffix = "" THEN <<>> ELSE <<suffix>>)

Result(error, label) == [err |-> error, text |-> label]

humanize_number(i, precision) ==
    IF i.m < 0 THEN Result("AssertionError", <<>>)
    ELSE LET order == Order(i)
             shift == i.e - order          \* x = i / 10**(order*3) = m * 1000^shift
             num == IF i.m = 0 THEN 0 ELSE IF shift >= 0 THEN i.m * Pow(1000, shift) ELSE i.m
             den == IF i.m = 0 \/ shift >= 0 THEN 1 ELSE Pow(1000, -shift)
         IN IF SuffixAt(order) = "IndexError" THEN Result("IndexError", <<>>)
            ELSE Result("", FormatFixed(num, den, precision, SuffixAt(order)))

---------------------------------------------------------------------------
\* One call of humanize_number on its own

Mantissas == {-1, 0, 1, 5, 50, 62, 100, 101, 500, 999}
Exponents == (-2)..5
HumanizeInputs ==
    {Num(v, 0) : v \in 0..MaxInt} \cup {Num(mant, exp) : mant \in Mantissas, exp \in Exponents}

HumanizeCall ==
    /\ hPc = "call"
    /\ hOut' = humanize_number(hIn, hPrec)
    /\ hPc' = "returned"
    /\ UNCHANGED <<hIn, hPrec, inputVars, runVars, calVars>>

HumanizeIdle ==
    /\ hIn = Num(0, 0) /\ hPrec = 0 /\ hOut = Result("", <<>>) /\ hPc = "idle"

---------------------------------------------------------------------------
\* calibrate_yticks_text

\* list(map(partial(humanize_number, precision=p), ticks))
MapHumanize(ticks, p) == [k \in 1..Len(ticks) |-> humanize_number(ticks[k], p)]

\* the exception list(map(...)) propagates: that of the first failing tick
FirstError(results) ==
    LET bad == {k \in 1..Len(results) : results[k].err # ""}
    IN IF bad = {} THEN "" ELSE results[CHOOSE k \in bad : \A j \in bad : k <= j].err

Texts(results) == [k \in 1..Len(results) |-> results[k].text]

\* len(set(yticks_text)) < len(yticks_text)
Collides(texts) == Cardinality({texts[k] : k \in 1..Len(texts)}) < Len(texts)

\* lines 41-42: prec = 0 and the first rendering
CalStart ==
    /\ calPc = "start"
    /\ prec' = 0
    /\ LET results == MapHumanize(yticks, 0)
       IN IF FirstError(results) # ""
          THEN calPc' = "raised" /\ yticks_text' = <<>>
          ELSE calPc' = "loop" /\ yticks_text' = Texts(results)
    /\ UNCHANGED <<yticks, inputVars, runVars, humVars>>

\* lines 43-45: one iteration of the while loop
CalLoop ==
    /\ calPc = "loop"
    /\ Collides(yticks_text)
    /\ prec < MaxPrec
    /\ prec' = prec + 1
    /\ LET results == MapHumanize(yticks, prec + 1)
       IN IF FirstError(results) # ""
          THEN calPc' = "raised" /\ yticks_text' = <<>>
          ELSE calPc' = "loop" /\ yticks_text' = Texts(results)
    /\ UNCHANGED <<yticks, inputVars, runVars, humVars>>

\* line 47: the loop condition is false, return yticks_text
CalReturn ==
    /\ calPc = "loop"
    /\ ~Collides(yticks_text)
    /\ calPc' = "returned"
    /\ UNCHANGED <<yticks, prec, yticks_text, inputVars, runVars, humVars>>

CalIdle == yticks = <<>> /\ prec = 0 /\ yticks_text = <<>> /\ calPc = "idle"

TickVals ==
    {Num(0, 0), Num(1001, 0), Num(1002, 0), Num(1499, 0),
     Num(62, -1), Num(62, 4), Num(1, 5), Num(-1, 0)}

TickSeqs == {t \in SeqsUpTo(TickVals, MaxTicks) : Len(t) >= 1 /\ Injective(t)}

---------------------------------------------------------------------------
\* Header validator: PAT_PANACUS = '^#.+panacus (\S+) (.+)' and the argument list

\* '.' matches anything but a newline; '\S' anything but white space
NonNewline(c) == c # "\n"
NonSpace(c) == c \notin {" ", "\n"}

\* first position >= k of h that does not hold a non-space character
RunEnd(h, k) ==
    LET stops == {j \in k..Len(h) : ~NonSpace(h[j])}
    IN IF stops = {} THEN Len(h) + 1 ELSE CHOOSE j \in stops : \A l \in stops : j <= l

\* last position of the run of non-newline characters that starts at k
LineEnd(h, k) ==
    LET stops == {j \in k..Len(h) : ~NonNewline(h[j])}
    IN IF stops = {} THEN Len(h) ELSE (CHOOSE j \in stops : \A l \in stops : j <= l) - 1

\* the pattern matches with "panacus" at position p: '#', at least one
\* character, "panacus", a space, a non-empty run of non-space characters, a
\* space, at least one more character
PatMatchAt(h, p) ==
    /\ p >= 3
    /\ p + 1 <= Len(h)
    /\ h[1] = "#"
    /\ \A k \in 2..(p - 1) : NonNewline(h[k])
    /\ h[p] = "panacus"
    /\ h[p + 1] = " "
    /\ LET q == RunEnd(h, p + 2)
       IN /\ q > p + 2
          /\ q + 1 <= Len(h)
          /\ h[q] = " "
          /\ NonNewline(h[q + 1])

\* PAT_PANACUS.match(header) and m.groups(): '.+' is greedy, so the last
\* "panacus" that lets the rest match is taken
PAT_PANACUS_match(h) ==
    LET places == {p \in 1..Len(h) : PatMatchAt(h, p)}
    IN IF places = {} THEN [matched |-> FALSE, command |-> <<>>, args |-> <<>>]
       ELSE LET p == SetMax(places)
                q == RunEnd(h, p + 2)
            IN [matched |-> TRUE,
                command |-> SubSeq(h, p + 2, q - 1),
                args |-> SubSeq(h, q + 1, LineEnd(h, q + 1))]

AllowedCommands == {<<"ordered-histgrowth">>, <<"histgrowth">>, <<"growth">>}

RECURSIVE Split(_)
\* str.split(' '): the pieces between single spaces, empty pieces included
Split(str) ==
    LET spaces == {k \in 1..Len(str) : str[k] = " "}
    IN IF spaces = {} THEN <<str>>
       ELSE LET k == CHOOSE j \in spaces : \A l \in spaces : j <= l
            IN <<SubSeq(str, 1, k - 1)>> \o Split(SubSeq(str, k + 1, Len(str)))

InList(x, list) == \E k \in 1..Len(list) : list[k] = x

\* list.index(x), counted from 0 as Python counts
ListIndex(list, x) == (CHOOSE k \in 1..Len(list) : list[k] = x /\ \A j \in 1..(k - 1) : list[j] # x) - 1

\* lines 112-116: the count type, or "IndexError" when the flag is the last token
CountType(list) ==
    LET flag == IF InList(<<"-c">>, list) THEN <<"-c">>
                ELSE IF InList(<<"--count">>, list) THEN <<"--count">>
                ELSE <<>>
    IN IF flag = <<>> THEN [err |-> "", value |-> <<"n", "o", "d", "e">>]
       ELSE LET k == ListIndex(list, flag) + 1
            IN IF k >= Len(list) THEN [err |-> "IndexError", value |-> <<>>]
               ELSE [err |-> "", value |-> list[k + 1]]

---------------------------------------------------------------------------
\* Table loader: column labels and their order

IsIntCell(cell) == cell \in {"1", "2", "3", "01"}

\* int(x) of a header cell
CellInt(cell) == CASE cell = "1" -> 1 [] cell = "01" -> 1 [] cell = "2" -> 2 [] cell = "3" -> 3

\* the key with its two parts swapped: coverage first, then quorum
KeyLess_ByCoverage(a, b) == a[1] < b[1] \/ (a[1] = b[1] /\ a[2] < b[2])

\* the key with coverage taken in descending order among equal quorums
KeyLess_CoverageDesc(a, b) == a[2] < b[2] \/ (a[2] = b[2] /\ a[1] > b[1])

\* the key of sorted(): (x[1], x[0]), compared as Python compares tuples
KeyLess(a, b) == a[2] < b[2] \/ (a[2] = b[2] /\ a[1] < b[1])

RECURSIVE Sorted(_)
\* sorted(cols, key=lambda x: (x[1], x[0])): a stable sort
Sorted(cols) ==
    IF cols = <<>> THEN <<>>
    ELSE LET front == Sorted(SubSeq(cols, 1, Len(cols) - 1))
             x == cols[Len(cols)]
             \* x goes behind every element whose key is not greater than its own
             n == Cardinality({k \in 1..Len(front) : ~KeyLess(x, front[k])})
         IN SubSeq(front, 1, n) \o <<x>> \o SubSeq(front, n + 1, Len(front))

---------------------------------------------------------------------------
\* The run: __main__ and plot

Step(name) == steps' = Append(steps, name)

\* an uncaught exception (or sys.exit) unwinds the with block of line 98 if
\* the run is inside it, and ends the process
Exit(status, exception, message) ==
    /\ pc' = "exited"
    /\ exitStatus' = status
    /\ failure' = exception
    /\ errMsg' = message
    /\ handleGrowth' = IF handleGrowth = "open" THEN "closed" ELSE handleGrowth

\* line 96: parse_args; type=open opens the file named on the command line
ParseArgs ==
    /\ pc = "parse_args"
    /\ IF fileExists
       THEN /\ handleArgs' = "open"
            /\ opens' = opens + 1
            /\ pc' = "open_growth"
            /\ UNCHANGED <<handleGrowth, failure, exitStatus, errMsg>>
       ELSE /\ Exit(2, "", "argument error")
            /\ UNCHANGED <<handleArgs, opens>>
    /\ UNCHANGED <<header, command, arg_list, counttype, columns, colIdx, series,
                   fitCalls, steps, written, inputVars, calVars, humVars>>

\* lines 98-99: open the file by name a second time and read its first line
ReadHeader ==
    /\ pc = "open_growth"
    /\ opens' = opens + 1
    /\ IF fileHeader = <<>>
       THEN /\ pc' = "exited" /\ exitStatus' = 1 /\ failure' = "StopIteration"
            /\ handleGrowth' = "closed"
            /\ UNCHANGED <<header, steps, errMsg>>
       ELSE /\ handleGrowth' = "open"
            /\ header' = fileHeader
            /\ pc' = "match"
            /\ Step("read_header")
            /\ UNCHANGED <<failure, exitStatus, errMsg>>
    /\ UNCHANGED <<handleArgs, command, arg_list, counttype, columns, colIdx, series,
                   fitCalls, written, inputVars, calVars, humVars>>

\* lines 100-105: match the header against the pattern
MatchHeader ==
    /\ pc = "match"
    /\ LET m == PAT_PANACUS_match(header)
       IN IF ~m.matched
          THEN /\ Exit(1, "", "wrong header")
               /\ UNCHANGED <<command, arg_list, steps>>
          ELSE /\ command' = m.command
               /\ arg_list' = m.args
               /\ pc' = "check_command"
               /\ Step("header_validation")
               /\ UNCHANGED <<handleGrowth, failure, exitStatus, errMsg>>
    /\ UNCHANGED <<handleArgs, opens, header, counttype, columns, colIdx, series,
                   fitCalls, written, inputVars, calVars, humVars>>

\* the command check left out: every command goes on to the count type
CheckCommand_NoExit ==
    /\ pc = "check_command"
    /\ pc' = "count_type"
    /\ Step("command_check")
    /\ UNCHANGED <<handleGrowth, failure, exitStatus, errMsg>>
    /\ UNCHANGED <<handleArgs, opens, header, command, arg_list, counttype, columns,
                   colIdx, series, fitCalls, written, inputVars, calVars, humVars>>

\* lines 107-109: the command must be a growth command
CheckCommand ==
    /\ pc = "check_command"
    /\ IF command \notin AllowedCommands
       THEN /\ Exit(1, "", "not a growth table")
            /\ UNCHANGED steps
       ELSE /\ pc' = "count_type"
            /\ Step("command_check")
            /\ UNCHANGED <<handleGrowth, failure, exitStatus, errMsg>>
    /\ UNCHANGED <<handleArgs, opens, header, command, arg_list, counttype, columns,
                   colIdx, series, fitCalls, written, inputVars, calVars, humVars>>

\* lines 111-116 and the end of the with block: split the arguments, find the
\* count type, close growth
ExtractCountType ==
    /\ pc = "count_type"
    /\ arg_list' = Split(arg_list)
    /\ LET ct == CountType(Split(arg_list))
       IN IF ct.err # ""
          THEN /\ Exit(1, ct.err, "")
               /\ UNCHANGED <<counttype, steps>>
          ELSE /\ counttype' = ct.value
               /\ handleGrowth' = "closed"
               /\ pc' = "read_csv"
               /\ Step("count_type")
               /\ UNCHANGED <<failure, exitStatus, errMsg>>
    /\ UNCHANGED <<handleArgs, opens, header, command, columns, colIdx, series,
                   fitCalls, written, inputVars, calVars, humVars>>

\* line 118: pd.read_csv on the handle argparse opened; a body that does not
\* parse raises (either outcome, the rows are not modelled)
ReadCsv ==
    /\ pc = "read_csv"
    /\ \E parses \in BOOLEAN :
         IF parses
         THEN /\ columns' = fileCols
              /\ pc' = "coerce"
              /\ Step("table_loading")
              /\ UNCHANGED <<handleGrowth, failure, exitStatus, errMsg>>
         ELSE /\ Exit(1, "ParserError", "")
              /\ UNCHANGED <<columns, steps>>
    /\ UNCHANGED <<handleArgs, opens, header, command, arg_list, counttype, colIdx,
                   series, fitCalls, written, inputVars, calVars, humVars>>

\* line 119: both header rows of every label to int
CoerceColumns ==
    /\ pc = "coerce"
    /\ IF \A k \in 1..Len(columns) : IsIntCell(columns[k][1]) /\ IsIntCell(columns[k][2])
       THEN /\ columns' = [k \in 1..Len(columns) |->
                             <<CellInt(columns[k][1]), CellInt(columns[k][2])>>]
            /\ pc' = "reindex"
            /\ Step("column_coercion")
            /\ UNCHANGED <<handleGrowth, failure, exitStatus, errMsg>>
       ELSE /\ Exit(1, "ValueError", "")
            /\ UNCHANGED <<columns, steps>>
    /\ UNCHANGED <<handleArgs, opens, header, command, arg_list, counttype, colIdx,
                   series, fitCalls, written, inputVars, calVars, humVars>>

\* line 120: reindex by the sorted labels; reindex refuses duplicate labels
ReindexSorted ==
    /\ pc = "reindex"
    /\ IF Injective(columns)
       THEN /\ columns' = Sorted(columns)
            /\ pc' = "plot_loop"
            /\ Step("column_reordering")
            /\ UNCHANGED <<handleGrowth, failure, exitStatus, errMsg>>
       ELSE /\ Exit(1, "ValueError", "")
            /\ UNCHANGED <<columns, steps>>
    /\ UNCHANGED <<handleArgs, opens, header, command, arg_list, counttype, colIdx,
                   series, fitCalls, written, inputVars, calVars, humVars>>

Bar(col, i) == [kind |-> "bar", col |-> col, color |-> i, label |-> <<>>]
Curve(col, text) == [kind |-> "curve", col |-> col, color |-> -1, label |-> text]

\* what compute_growth can give: curve_fit raises, or popt[0] is one of these
FitMultipliers == {Num(2, 0), Num(-1, 0), Num(1, 5)}

\* the loop body without the test q == 1: every column is fitted
PlotColumn_FitsAll ==
    /\ pc = "plot_loop"
    /\ colIdx < Len(columns)
    /\ LET col == columns[colIdx + 1]
       IN IF estimate
          THEN /\ fitCalls' = Append(fitCalls, colIdx)
               /\ \E converges \in BOOLEAN, mult \in FitMultipliers :
                    LET label == humanize_number(mult, 1)
                    IN IF converges /\ label.err = ""
                       THEN /\ series' = series \o <<Bar(col, colIdx), Curve(col, label.text)>>
                            /\ colIdx' = colIdx + 1
                            /\ Step("fit")
                            /\ UNCHANGED <<pc, handleGrowth, failure, exitStatus, errMsg>>
                       ELSE /\ Exit(1, IF converges THEN label.err ELSE "RuntimeError", "")
                            /\ series' = Append(series, Bar(col, colIdx))
                            /\ UNCHANGED <<colIdx, steps>>
          ELSE /\ series' = Append(series, Bar(col, colIdx))
               /\ colIdx' = colIdx + 1
               /\ UNCHANGED <<pc, fitCalls, steps, handleGrowth, failure, exitStatus, errMsg>>
    /\ UNCHANGED <<handleArgs, opens, header, command, arg_list, counttype, columns,
                   written, inputVars, calVars, humVars>>

\* lines 67-71: one iteration of the loop over the columns
PlotColumn ==
    /\ pc = "plot_loop"
    /\ colIdx < Len(columns)
    /\ LET col == columns[colIdx + 1]
       IN IF estimate /\ col[2] = 1
          THEN /\ fitCalls' = Append(fitCalls, colIdx)
               /\ \E converges \in BOOLEAN, mult \in FitMultipliers :
                    LET label == humanize_number(mult, 1)
                    IN IF converges /\ label.err = ""
                       THEN /\ series' = series \o <<Bar(col, colIdx), Curve(col, label.text)>>
                            /\ colIdx' = colIdx + 1
                            /\ Step("fit")
                            /\ UNCHANGED <<pc, handleGrowth, failure, exitStatus, errMsg>>
                       ELSE /\ Exit(1, IF converges THEN label.err ELSE "RuntimeError", "")
                            /\ series' = Append(series, Bar(col, colIdx))
                            /\ UNCHANGED <<colIdx, steps>>
          ELSE /\ series' = Append(series, Bar(col, colIdx))
               /\ colIdx' = colIdx + 1
               /\ UNCHANGED <<pc, fitCalls, steps, handleGrowth, failure, exitStatus, errMsg>>
    /\ UNCHANGED <<handleArgs, opens, header, command, arg_list, counttype, columns,
                   written, inputVars, calVars, humVars>>

\* the ticks matplotlib can hand to calibrate_yticks_text in a run
PlotTickSeqs ==
    {<<Num(0, 0), Num(500, 0), Num(1, 1), Num(1500, 0), Num(2, 1)>>,
     <<Num(0, 0), Num(500, 4), Num(1, 5)>>,
     <<Num(-1, 0), Num(0, 0), Num(1, 0)>>}

\* lines 72-75: the loop is over; take the ticks and call calibrate_yticks_text
PlotTicks ==
    /\ pc = "plot_loop"
    /\ colIdx = Len(columns)
    /\ \E ticks \in PlotTickSeqs : yticks' = ticks
    /\ calPc' = "start"
    /\ pc' = "yticks"
    /\ UNCHANGED <<prec, yticks_text, handleArgs, handleGrowth, opens, header, command,
                   arg_list, counttype, columns, colIdx, series, fitCalls, steps,
                   written, errMsg, failure, exitStatus, inputVars, humVars>>

\* calibrate_yticks_text raised: the exception leaves plot and ends the run
PlotTicksRaise ==
    /\ pc = "yticks"
    /\ calPc = "raised"
    /\ Exit(1, FirstError(MapHumanize(yticks, prec)), "")
    /\ UNCHANGED <<handleArgs, opens, header, command, arg_list, counttype, columns,
                   colIdx, series, fitCalls, steps, written, inputVars, calVars, humVars>>

\* the figure written without waiting for calibrate_yticks_text to return
SaveFig_Unguarded ==
    /\ pc = "yticks"
    /\ written' = written + 1
    /\ pc' = "saved"
    /\ steps' = steps \o <<"tick_calibration", "savefig">>
    /\ UNCHANGED <<handleArgs, handleGrowth, opens, header, command, arg_list, counttype,
                   columns, colIdx, series, fitCalls, errMsg, failure, exitStatus,
                   inputVars, calVars, humVars>>

\* lines 75-82: set the labels, title, legend and write the figure to out
SaveFig ==
    /\ pc = "yticks"
    /\ calPc = "returned"
    /\ written' = written + 1
    /\ pc' = "saved"
    /\ steps' = steps \o <<"tick_calibration", "savefig">>
    /\ UNCHANGED <<handleArgs, handleGrowth, opens, header, command, arg_list, counttype,
                   columns, colIdx, series, fitCalls, errMsg, failure, exitStatus,
                   inputVars, calVars, humVars>>

\* line 83 and the end of the script
Finish ==
    /\ pc = "saved"
    /\ pc' = "exited"
    /\ exitStatus' = 0
    /\ UNCHANGED <<handleArgs, handleGrowth, opens, header, command, arg_list, counttype,
                   columns, colIdx, series, fitCalls, steps, written, errMsg, failure,
                   inputVars, calVars, humVars>>

RunStart ==
    /\ pc = "parse_args" /\ handleArgs = "none" /\ handleGrowth = "none" /\ opens = 0
    /\ header = <<>> /\ command = <<>> /\ arg_list = <<>> /\ counttype = <<>>
    /\ columns = <<>> /\ colIdx = 0 /\ series = <<>> /\ fitCalls = <<>>
    /\ steps = <<>> /\ written = 0 /\ errMsg = "" /\ failure = "" /\ exitStatus = -1

RunIdle ==
    /\ pc = "off" /\ handleArgs = "none" /\ handleGrowth = "none" /\ opens = 0
    /\ header = <<>> /\ command = <<>> /\ arg_list = <<>> /\ counttype = <<>>
    /\ columns = <<>> /\ colIdx = 0 /\ series = <<>> /\ fitCalls = <<>>
    /\ steps = <<>> /\ written = 0 /\ errMsg = "" /\ failure = "" /\ exitStatus = -1

InputsIdle ==
    /\ fileExists = FALSE /\ fileHeader = <<>> /\ fileCols = <<>> /\ estimate = FALSE

---------------------------------------------------------------------------
\* The files a run is checked on

RECURSIVE Join(_)
\* ' '.join(tokens)
Join(tokens) ==
    IF tokens = <<>> THEN <<>>
    ELSE IF Len(tokens) = 1 THEN tokens[1]
    ELSE tokens[1] \o <<" ">> \o Join(Tail(tokens))

Prefixes ==
    {<<"#", " ", "panacus", " ">>,
     <<"#", "panacus", " ">>,
     <<"x", " ", "panacus", " ">>,
     <<"#", " ", "x", " ">>,
     <<"#", " ", "panacus", " ", "growth", " ", "bp", " ", "panacus", " ">>}

CommandWords == {<<"ordered-histgrowth">>, <<"histgrowth">>, <<"growth">>, <<"stats">>, <<>>}

ArgWords == {<<"-c">>, <<"--count">>, <<"bp">>, <<>>}

HeaderLine(prefix, cmd, args) == prefix \o cmd \o <<" ">> \o Join(args) \o <<"\n">>

Headers ==
    {HeaderLine(prefix, cmd, args) :
        prefix \in Prefixes, cmd \in CommandWords, args \in SeqsUpTo(ArgWords, MaxArgs)}
    \cup {<<>>}

GoodHeaders ==
    {HeaderLine(<<"#", " ", "panacus", " ">>, <<"histgrowth">>, <<<<"-c">>, <<"bp">>>>)}

RawLabels ==
    ({"1", "2", "3"} \X {"1", "2"}) \cup {<<"x", "1">>, <<"1", "x">>, <<"01", "1">>}

Tables == {t \in SeqsUpTo(RawLabels, MaxCols) : Injective(t)}

FewTables ==
    {<<<<"1", "2">>, <<"3", "1">>, <<"2", "1">>>>, <<<<"1", "1">>, <<"1", "x">>>>}

---------------------------------------------------------------------------
\* Specifications

\* humanize_number called once on each input of HumanizeInputs
InitHumanize ==
    /\ hIn \in HumanizeInputs /\ hPrec \in 0..1 /\ hOut = Result("", <<>>) /\ hPc = "call"
    /\ tieUp \in BOOLEAN
    /\ InputsIdle /\ RunIdle /\ CalIdle

NextHumanize == HumanizeCall

SpecHumanize == InitHumanize /\ [][NextHumanize]_vars

\* calibrate_yticks_text called once on each tick sequence of TickSeqs
InitTicks ==
    /\ yticks \in TickSeqs /\ prec = 0 /\ yticks_text = <<>> /\ calPc = "start"
    /\ tieUp \in BOOLEAN
    /\ InputsIdle /\ RunIdle /\ HumanizeIdle

NextTicks == CalStart \/ CalLoop \/ CalReturn

SpecTicks == InitTicks /\ [][NextTicks]_vars

\* a run of the script
NextRun ==
    \/ ParseArgs \/ ReadHeader \/ MatchHeader \/ CheckCommand \/ ExtractCountType
    \/ ReadCsv \/ CoerceColumns \/ ReindexSorted
    \/ PlotColumn \/ PlotTicks \/ CalStart \/ CalLoop \/ CalReturn
    \/ PlotTicksRaise \/ SaveFig \/ Finish

\* runs on every header of Headers
Init ==
    /\ fileExists \in BOOLEAN /\ fileHeader \in Headers /\ fileCols \in FewTables
    /\ estimate \in BOOLEAN /\ tieUp \in BOOLEAN
    /\ RunStart /\ CalIdle /\ HumanizeIdle

Next == NextRun

Spec == Init /\ [][Next]_vars

\* runs on every table of Tables
InitTable ==
    /\ fileExists \in BOOLEAN /\ fileHeader \in GoodHeaders /\ fileCols \in Tables
    /\ estimate \in BOOLEAN /\ tieUp \in BOOLEAN
    /\ RunStart /\ CalIdle /\ HumanizeIdle

NextTable == NextRun

SpecTable == InitTable /\ [][NextTable]_vars

---------------------------------------------------------------------------
\* Properties of a run

StepDone(name) == \E k \in 1..Len(steps) : steps[k] = name
Count(seq, x) == Cardinality({k \in 1..Len(seq) : seq[k] = x})

\* the header line of the file is one the validator must reject
Rejected(h) ==
    \/ ~PAT_PANACUS_match(h).matched
    \/ PAT_PANACUS_match(h).command \notin AllowedCommands

\* C1: a file whose first line does not match the marker pattern, or names a
\* command other than the three growth commands, ends the run with a message
\* on standard error and exit status 1; the table loader and the renderer are
\* never reached and nothing is written to standard output.
C1_HeaderRejection ==
    (header # <<>> /\ Rejected(header)) =>
        /\ \/ pc \in {"match", "check_command"}
           \/ pc = "exited" /\ exitStatus = 1 /\ errMsg # ""
        /\ written = 0
        /\ ~StepDone("table_loading")
        /\ columns = <<>> /\ series = <<>> /\ calPc = "idle"

C1_Witness ==
    /\ pc = "exited" /\ errMsg = "not a growth table"
    /\ PAT_PANACUS_match(header).matched
    /\ PAT_PANACUS_match(header).command = <<"stats">>

StepsBeforePlot ==
    <<"read_header", "header_validation", "command_check", "count_type",
      "table_loading", "column_coercion", "column_reordering">>

\* number of curve fits a complete run asks for
FitsRequested ==
    IF estimate THEN Cardinality({k \in 1..Len(columns) : columns[k][2] = 1}) ELSE 0

\* C2: standard output is written at most once, and only after header
\* validation, command check, count-type extraction, table loading, column
\* coercion and reordering, every requested fit and tick calibration have
\* completed; a run that fails at any step ends at once with nothing written,
\* and no step is carried out twice.
C2_FailFast ==
    /\ written <= 1
    /\ written > 0 =>
         /\ steps = StepsBeforePlot \o [k \in 1..FitsRequested |-> "fit"]
                        \o <<"tick_calibration", "savefig">>
         /\ calPc = "returned"
         /\ failure = ""
    /\ (failure # "" \/ exitStatus > 0) => (pc = "exited" /\ written = 0)
    /\ \A k \in 1..Len(steps) : steps[k] # "fit" => Count(steps, steps[k]) = 1
    /\ Injective(fitCalls)
    /\ opens <= 2

C2_Witness ==
    /\ pc = "exited" /\ failure = "RuntimeError" /\ written = 0
    /\ StepDone("column_reordering") /\ Len(series) > 0

\* C3: for a header that matches the pattern with an allowed command, whatever
\* the argument tokens, extraction succeeds, and the count type is 'node' when
\* neither -c nor --count is a token and otherwise the token that follows the flag.
C3_CountTypeExtraction ==
    LET m == PAT_PANACUS_match(header)
        tokens == Split(m.args)
        flags == {k \in 1..Len(tokens) : tokens[k] \in {<<"-c">>, <<"--count">>}}
    IN (/\ header # <<>> /\ m.matched /\ m.command \in AllowedCommands
        /\ pc \notin {"match", "check_command", "count_type"}) =>
           /\ StepDone("count_type")
           /\ IF flags = {} THEN counttype = <<"n", "o", "d", "e">>
              ELSE \E k \in flags : k < Len(tokens) /\ counttype = tokens[k + 1]

\* the labels of the file as integer pairs
FileLabels == [k \in 1..Len(fileCols) |-> <<CellInt(fileCols[k][1]), CellInt(fileCols[k][2])>>]

\* C4: the columns after reordering are a permutation of the columns read
\* (none added, dropped or duplicated), in ascending order of quorum, columns
\* of equal quorum in ascending order of coverage.
C4_ColumnOrder ==
    StepDone("column_reordering") =>
        /\ Len(columns) = Len(fileCols)
        /\ Injective(columns)
        /\ {columns[k] : k \in 1..Len(columns)} = {FileLabels[k] : k \in 1..Len(fileCols)}
        /\ \A a, b \in 1..Len(columns) :
             a < b => \/ columns[a][2] < columns[b][2]
                      \/ columns[a][2] = columns[b][2] /\ columns[a][1] < columns[b][1]

C4_Witness ==
    /\ StepDone("column_reordering")
    /\ Len(columns) = 3
    /\ columns # FileLabels
    /\ columns[1][2] = columns[2][2]

ExampleTable == <<<<"1", "2">>, <<"3", "1">>, <<"2", "1">>>>

\* C5 as stated: columns (1,2), (3,1), (2,1) come out of the sort as
\* (3,1), (2,1), (1,2).
C5_Original ==
    (fileCols = ExampleTable /\ StepDone("column_reordering")) =>
        columns = <<<<3, 1>>, <<2, 1>>, <<1, 2>>>>

\* C5 amended: columns (1,2), (3,1), (2,1) come out of the sort as
\* (2,1), (3,1), (1,2): quorum ascending, then coverage ascending.
C5_Amended ==
    (fileCols = ExampleTable /\ StepDone("column_reordering")) =>
        columns = <<<<2, 1>>, <<3, 1>>, <<1, 2>>>>

C5_Witness == fileCols = ExampleTable /\ StepDone("column_reordering") /\ pc = "plot_loop"

IsBar(s) == s.kind = "bar"
IsCurve(s) == s.kind = "curve"
QuorumOne == {k \in 1..Len(columns) : columns[k][2] = 1}

\* the loop of plot has run over every column
LoopDone == StepDone("column_reordering") /\ pc # "plot_loop" /\ colIdx = Len(columns)

\* C6: plot draws exactly one bar series per column, in column order; without
\* the overlay flag the growth estimator is never called and no curve is
\* drawn; with it the estimator is called exactly once for each column of
\* quorum 1 and one dashed curve is drawn for each of them and for no other.
C6_SeriesDrawn ==
    LoopDone =>
        LET bars == SelectSeq(series, IsBar)
            curves == SelectSeq(series, IsCurve)
        IN /\ bars = [k \in 1..Len(columns) |-> Bar(columns[k], k - 1)]
           /\ ~estimate => (fitCalls = <<>> /\ curves = <<>>)
           /\ estimate =>
                /\ Len(fitCalls) = Cardinality(QuorumOne)
                /\ Len(curves) = Cardinality(QuorumOne)
                /\ \A k \in 1..Len(columns) :
                     /\ Count(fitCalls, k - 1) = (IF k \in QuorumOne THEN 1 ELSE 0)
                     /\ Cardinality({j \in 1..Len(curves) : curves[j].col = columns[k]})
                          = (IF k \in QuorumOne THEN 1 ELSE 0)

C6_Witness ==
    /\ LoopDone /\ estimate
    /\ Cardinality(QuorumOne) = 2
    /\ Len(columns) = 3
    /\ Len(series) = 5

\* C10: the input file is opened exactly twice in a run, and however the run
\* ends, every handle opened on it has been closed by then.
C10_HandlesReleased ==
    (pc = "exited" /\ fileExists) =>
        /\ opens = 2
        /\ handleArgs # "open"
        /\ handleGrowth # "open"

---------------------------------------------------------------------------
\* Properties of the tick formatter

\* floor(log10(v)) for v > 0
FloorLog10(v) == (Digits(v.m) - 1) + 3 * v.e

\* the size suffix a label ends in
SuffixOf(text) ==
    IF text # <<>> /\ text[Len(text)] \in {"K", "M", "B", "D"} THEN text[Len(text)] ELSE ""

\* C7: for pairwise distinct non-negative ticks, calibrate_yticks_text
\* terminates and returns one label per tick, the labels pairwise distinct.
C7_CalibrationTerminates ==
    (Injective(yticks) /\ \A k \in 1..Len(yticks) : yticks[k].m >= 0) =>
        /\ calPc # "raised"
        /\ calPc = "loop" /\ Collides(yticks_text) => prec < MaxPrec
        /\ calPc = "returned" => (Len(yticks_text) = Len(yticks) /\ Injective(yticks_text))

\* C8: humanize_number fails only on a negative value; for every non-negative
\* value it returns a label whose suffix is the element of ('', 'K', 'M', 'B',
\* 'D') at index floor(log10(value)) div 3 (index 0 for value 0; a negative
\* index counts from the end, as Python indexes).
C8_FormatterFailure ==
    hPc = "returned" =>
        /\ hOut.err # "" => hIn.m < 0
        /\ hIn.m >= 0 =>
             LET k == IF hIn.m = 0 THEN 0 ELSE FloorLog10(hIn) \div 3
             IN /\ hOut.err = ""
                /\ k \in (-5)..4
                /\ SuffixOf(hOut.text) = human_r[IF k >= 0 THEN k + 1 ELSE k + 6]

\* C9: humanize_number(0) is "0", humanize_number(1500, 0) is "2K",
\* humanize_number(999, 0) is "999"; for every non-negative integer v at
\* precision 0 the label is v / 1000^k rounded to an integer, followed by the
\* k-th suffix, k = floor(log10(v)) div 3.
C9_Abbreviation ==
    (hPc = "returned" /\ hPrec = 0 /\ hIn.m >= 0 /\ hIn.e >= 0) =>
        /\ hOut.err = ""
        /\ hIn = Num(0, 0) => hOut.text = <<"0">>
        /\ hIn = Num(1500, 0) => hOut.text = <<"2", "K">>
        /\ hIn = Num(999, 0) => hOut.text = <<"9", "9", "9">>
        /\ hIn.e = 0 =>
             LET v == hIn.m
                 k == IF v = 0 THEN 0 ELSE (Digits(v) - 1) \div 3
                 unit == Pow(1000, k)
             IN \E n \in 0..1000 :
                  /\ 2 * n * unit - unit <= 2 * v
                  /\ 2 * v <= 2 * n * unit + unit
                  /\ hOut.text = Grouped(n) \o (IF k = 0 THEN <<>> ELSE <<human_r[k + 1]>>)

====
